---- MODULE Spec2Model ----
(***************************************************************************)
(* A model of joncalhoun-dl: login, extraction of the section/lesson map   *)
(* from the course page, per-lesson resolution of the media URL and the    *)
(* skip-if-present download into numbered paths.                           *)
(*                                                                         *)
(* Text is a sequence of one-character strings, so that strip/replace and  *)
(* the f-string formatting are computed as the code computes them.  A      *)
(* relative link target (href) is the sequence of its path segments, each  *)
(* segment a sequence of atoms: "/lessons/l1" is <<<<"lessons">>,          *)
(* <<"l1">>>>.  A path on disk is a sequence of atoms with "/" separators. *)
(***************************************************************************)
EXTENDS Naturals, Sequences, FiniteSets

VARIABLES
    doc,             \* the course page: its section containers, in document order
    pc,              \* position of main() / download_videos()
    session,         \* the requests.Session: "anonymous" | "authenticated"
    sections,        \* the ordered dict built by extract_sections_and_lessons
    total_lessons,   \* total_lessons of get_sections_and_lesson_urls
    si,              \* position of the outer for-loop in sections.items()
    li,              \* position of the inner for-loop in videos
    section_counter, \* download_videos' section_counter
    lesson_counter,  \* download_videos' lesson_counter
    section_path,    \* download_videos' section_path
    mp4_url,         \* download_videos' mp4_url
    page_hit,        \* whether the lesson page just fetched held a files/<prefix> link
    fs,              \* files on disk: path -> [state, by], by: written by "this" run or an "earlier" one
    dirs,            \* directories on disk
    net,             \* requests issued in this run, by kind
    fileWrites,      \* files opened for writing in this run
    abortCause,      \* what the top-level except caught in this run
    reported,        \* <<total>> once "Download Complete" is logged, else NotReported
    secDirs,         \* this run's get_section_path results, in call order
    targets,         \* this run's download_video file paths, in call order
    last,            \* what the latest download_video call saw and did
    raw,             \* input of the pure-function specifications
    out,             \* their results
    step             \* their position

runVars == <<pc, session, sections, total_lessons, si, li, section_counter,
             lesson_counter, section_path, mp4_url, page_hit, net, fileWrites, abortCause,
             reported, secDirs, targets, last>>
diskVars == <<fs, dirs>>
fnVars == <<raw, out, step>>
vars == <<doc, runVars, diskVars, fnVars>>

(***************************************************************************)
(* Bounds                                                                  *)
(***************************************************************************)
MaxSections == 2
MaxRawLen == 3
MaxNameLen == 2

(***************************************************************************)
(* Text                                                                    *)
(***************************************************************************)
RECURSIVE SeqsUpTo(_, _)
SeqsUpTo(S, n) ==
    IF n = 0 THEN {<<>>}
    ELSE LET shorter == SeqsUpTo(S, n - 1)
         IN  shorter \cup {Append(s, c) : s \in {t \in shorter : Len(t) = n - 1}, c \in S}

\* str.strip() with no argument removes leading and trailing whitespace.
Whitespace == {" ", "\t"}

RECURSIVE LStrip(_)
LStrip(s) == IF s # <<>> /\ Head(s) \in Whitespace THEN LStrip(Tail(s)) ELSE s

RECURSIVE RStrip(_)
RStrip(s) ==
    IF s # <<>> /\ s[Len(s)] \in Whitespace THEN RStrip(SubSeq(s, 1, Len(s) - 1)) ELSE s

Strip(s) == LStrip(RStrip(s))

\* str.replace(old, new) for a one-character old.
Replace(s, old, new) == [i \in 1..Len(s) |-> IF s[i] = old THEN new ELSE s[i]]

\* variant: '/' is not replaced
SanitizeNoSlash(s) == Replace(Strip(s), " ", "_")

\* .strip().replace("/", "_").replace(" ", "_")
Sanitize(s) == Replace(Replace(Strip(s), "/", "_"), " ", "_")

Digit(d) == <<"0", "1", "2", "3", "4", "5", "6", "7", "8", "9">>[d + 1]

RECURSIVE Decimal(_)
Decimal(n) == IF n < 10 THEN <<Digit(n)>> ELSE Append(Decimal(n \div 10), Digit(n % 10))

RECURSIVE ZeroPad(_, _)
ZeroPad(s, width) == IF Len(s) >= width THEN s ELSE ZeroPad(<<"0">> \o s, width)

\* f"{n:0<width>d}": zero-padded to at least width digits, never truncated.
Fmt(n, width) == ZeroPad(Decimal(n), width)

\* os.path.join(a, b) on POSIX.
PathJoin(a, b) ==
    IF b # <<>> /\ Head(b) = "/" THEN b
    ELSE IF a = <<>> \/ a[Len(a)] = "/" THEN a \o b
    ELSE a \o <<"/">> \o b

(***************************************************************************)
(* Configuration                                                           *)
(***************************************************************************)
BASE_URL == <<"https://courses.calhoun.io">>
course_prefix == "fil_twg_"
destination == <<"TestWithGo">>

\* find("h3") found nothing
NoH3 == <<"NoH3">>
\* the success line has not been logged
NotReported == <<>>
NoUrl == <<>>

(***************************************************************************)
(* scraper.py                                                              *)
(***************************************************************************)
\* extract_section_name
ExtractSectionName(section_div) ==
    IF section_div.h3 # NoH3 THEN Sanitize(section_div.h3) ELSE <<"Uncategorized">>

\* extract_lesson_details
ExtractLessonDetails(lesson_link) ==
    [title |-> Sanitize(lesson_link.text), url |-> BASE_URL \o lesson_link.href]

\* "/lessons/" in href
HasLessonsMarker(href) == \E i \in 1..(Len(href) - 1) : href[i] = <<"lessons">>

\* the inner loop of extract_sections_and_lessons over one container's links
LessonsOf(section_div) ==
    LET ls == SelectSeq(section_div.links, LAMBDA a : HasLessonsMarker(a.href))
    IN  [i \in 1..Len(ls) |-> ExtractLessonDetails(ls[i])]

\* sections[name] = [] on an insertion-ordered dict: a present key keeps its
\* place and has its value replaced, a new key is appended.
DictReset(d, name) ==
    IF \E i \in 1..Len(d) : d[i].name = name
    THEN [i \in 1..Len(d) |-> IF d[i].name = name THEN [name |-> name, videos |-> <<>>] ELSE d[i]]
    ELSE Append(d, [name |-> name, videos |-> <<>>])

\* sections[name].append(...) for every lesson link of the container
DictExtend(d, name, vs) ==
    [i \in 1..Len(d) |-> IF d[i].name = name THEN [d[i] EXCEPT !.videos = @ \o vs] ELSE d[i]]

RECURSIVE ExtractLoop(_, _)
ExtractLoop(divs, d) ==
    IF divs = <<>> THEN d
    ELSE LET name == ExtractSectionName(Head(divs))
         IN  ExtractLoop(Tail(divs), DictExtend(DictReset(d, name), name, LessonsOf(Head(divs))))

\* section_divs[1:]
SkipFirst(divs) == IF divs = <<>> THEN <<>> ELSE Tail(divs)

\* extract_sections_and_lessons, before its emptiness check
ExtractSectionsAndLessons(soup) == ExtractLoop(SkipFirst(soup), <<>>)

\* "if not sections: raise ValueError"
RaisesNoContent(d) == d = <<>>

RECURSIVE SumLens(_)
SumLens(d) == IF d = <<>> THEN 0 ELSE Len(Head(d).videos) + SumLens(Tail(d))

\* f"files/{course_prefix}" in href
HasFileMarker(href) ==
    \E i \in 1..(Len(href) - 1) :
        /\ href[i] # <<>>
        /\ href[i][Len(href[i])] = "files"
        /\ href[i + 1] # <<>>
        /\ Head(href[i + 1]) = course_prefix

\* find_mp4_link: the first matching link of the lesson page, or ""
FindMp4Link(page) ==
    LET hits == SelectSeq(page, HasFileMarker)
    IN  IF hits = <<>> THEN NoUrl ELSE BASE_URL \o Head(hits)

(***************************************************************************)
(* downloader.py                                                           *)
(***************************************************************************)
\* get_section_path: the path (the directory is made by the caller's action)
GetSectionPath(dest, section_num, section_name) ==
    PathJoin(dest, Fmt(section_num, 2) \o <<"_">> \o section_name)

\* variant: no underscore between the number and the title
GetFilePathNoSeparator(spath, lesson_num, filename) ==
    PathJoin(spath, Fmt(lesson_num, 3) \o filename \o <<".mp4">>)

\* get_file_path
GetFilePath(spath, lesson_num, filename) ==
    PathJoin(spath, Fmt(lesson_num, 3) \o <<"_">> \o filename \o <<".mp4">>)

\* variant: only a completely written file counts as downloaded
FileIsComplete(file_path) == file_path \in DOMAIN fs /\ fs[file_path].state = "complete"

\* file_already_downloaded
FileAlreadyDownloaded(file_path) == file_path \in DOMAIN fs

(***************************************************************************)
(* The world: documents and responses                                      *)
(***************************************************************************)
Lesson1 == [text |-> <<" ", "a", " ", "b">>, href |-> <<<<"lessons">>, <<"l1">>>>]
Lesson2 == [text |-> <<"c", "/", "d">>, href |-> <<<<"lessons">>, <<"l2">>>>]
OtherLink == [text |-> <<"x">>, href |-> <<<<"about">>>>]

Headings == {NoH3, <<"S", " ", "x">>}
LinkLists == {<<>>, <<OtherLink, Lesson1>>, <<Lesson1, Lesson2>>}
Containers == [h3 : Headings, links : LinkLists]
\* The first container of the page is its banner: bare, or looking like a section.
Banners == {[h3 |-> NoH3, links |-> <<>>],
            [h3 |-> <<"S", " ", "x">>, links |-> <<Lesson1, Lesson2>>]}
\* A page with no container at all, or a banner followed by up to MaxSections containers.
Docs == {<<>>} \cup {<<b>> \o rest : b \in Banners, rest \in SeqsUpTo(Containers, MaxSections)}

Mp4A == <<<<"files">>, <<"fil_twg_", "a.mp4">>>>
Mp4B == <<<<"files">>, <<"fil_twg_", "b.mp4">>>>
OtherCourseFile == <<<<"files">>, <<"fil_wdwgv2_", "a.mp4">>>>
LessonPages == {<<>>, <<OtherCourseFile>>, <<OtherLink.href, Mp4A, Mp4B>>}

StatusCodes == {200, 404}

(***************************************************************************)
(* main.py and the loop of download_videos                                 *)
(***************************************************************************)
NoNet == [logins |-> 0, coursePages |-> 0, lessonPages |-> 0, mediaGets |-> 0]
Absent == [state |-> "absent", by |-> "never"]
NoLast == [k |-> 0, path |-> <<>>, url |-> NoUrl, hit |-> FALSE, existed |-> FALSE,
           outcome |-> "none", gets |-> 0, before |-> Absent]

FreshRun ==
    /\ pc = "Idle"
    /\ session = "anonymous"
    /\ sections = <<>>
    /\ total_lessons = 0
    /\ si = 0
    /\ li = 0
    /\ section_counter = 0
    /\ lesson_counter = 0
    /\ section_path = <<>>
    /\ mp4_url = NoUrl
    /\ page_hit = FALSE
    /\ net = NoNet
    /\ fileWrites = 0
    /\ abortCause = "none"
    /\ reported = NotReported
    /\ secDirs = <<>>
    /\ targets = <<>>
    /\ last = NoLast

FnIdle == raw = <<>> /\ out = <<>> /\ step = "off"

\* The state when main() has parsed its arguments (argparse admits only the
\* configured courses, so the course lookup succeeds) and made its Session.
Init ==
    /\ doc \in Docs
    /\ FreshRun
    /\ fs = <<>>
    /\ dirs = {}
    /\ FnIdle

\* main()'s except clause: the run ends, nothing else changes.
Abort(cause) ==
    /\ pc' = "Aborted"
    /\ abortCause' = cause

\* variant: the response status is not looked at
LoginNeverFails(status) == FALSE

\* auth.login's test of the response
LoginFails(status) == status # 200

\* auth.login
Login ==
    /\ pc = "Idle"
    /\ net' = [net EXCEPT !.logins = @ + 1]
    /\ \E status \in StatusCodes :
          /\ session' = IF status = 200 THEN "authenticated" ELSE "anonymous"
          /\ IF LoginFails(status)
             THEN Abort("login")
             ELSE pc' = "Authenticated" /\ UNCHANGED abortCause
    /\ UNCHANGED <<doc, sections, total_lessons, si, li, section_counter, lesson_counter,
                   section_path, mp4_url, page_hit, fileWrites, reported, secDirs, targets,
                   last, diskVars, fnVars>>

\* fetch_html's test of the response
FetchFails(status) == status # 200

\* scraper.get_sections_and_lesson_urls
GetSectionsAndLessonUrls ==
    /\ pc = "Authenticated"
    /\ net' = [net EXCEPT !.coursePages = @ + 1]
    /\ \E status \in StatusCodes :
          IF FetchFails(status)
          THEN Abort("course_fetch") /\ UNCHANGED <<sections, total_lessons>>
          ELSE LET d == ExtractSectionsAndLessons(doc)
               IN  IF RaisesNoContent(d)
                   THEN Abort("no_content") /\ UNCHANGED <<sections, total_lessons>>
                   ELSE /\ sections' = d
                        /\ total_lessons' = SumLens(d)
                        /\ pc' = "Extracted"
                        /\ UNCHANGED abortCause
    /\ UNCHANGED <<doc, session, si, li, section_counter, lesson_counter, section_path,
                   mp4_url, page_hit, fileWrites, reported, secDirs, targets, last, diskVars,
                   fnVars>>

\* download_videos, lines 142-143
StartDownloadVideos ==
    /\ pc = "Extracted"
    /\ lesson_counter' = 1
    /\ section_counter' = 1
    /\ si' = 0
    /\ li' = 1
    /\ pc' = "Downloading"
    /\ UNCHANGED <<doc, session, sections, total_lessons, section_path, mp4_url, page_hit,
                   net, fileWrites, abortCause, reported, secDirs, targets, last, diskVars,
                   fnVars>>

\* the inner for-loop has no further (lesson_title, lesson_url)
InnerLoopDone == IF si = 0 THEN TRUE ELSE li > Len(sections[si].videos)

\* download_videos, lines 145-149: the next section
NextSection ==
    /\ pc = "Downloading"
    /\ InnerLoopDone
    /\ si < Len(sections)
    /\ LET p == GetSectionPath(destination, section_counter, sections[si + 1].name)
       IN  /\ section_path' = p
           /\ dirs' = dirs \cup {p}
           /\ secDirs' = Append(secDirs, p)
    /\ section_counter' = section_counter + 1
    /\ si' = si + 1
    /\ li' = 1
    /\ UNCHANGED <<doc, pc, session, sections, total_lessons, lesson_counter, mp4_url,
                   page_hit, net, fileWrites, abortCause, reported, targets, last, fs, fnVars>>

\* scraper.get_mp4_url, called at download_videos line 152
GetMp4Url ==
    /\ pc = "Downloading"
    /\ ~InnerLoopDone
    /\ net' = [net EXCEPT !.lessonPages = @ + 1]
    /\ \E status \in StatusCodes :
          IF FetchFails(status)
          THEN Abort("lesson_fetch") /\ UNCHANGED <<mp4_url, page_hit>>
          ELSE \E page \in LessonPages :
                  /\ mp4_url' = FindMp4Link(page)
                  /\ page_hit' = \E i \in 1..Len(page) : page[i] \in {Mp4A, Mp4B}
                  /\ pc' = "Resolved"
                  /\ UNCHANGED abortCause
    /\ UNCHANGED <<doc, session, sections, total_lessons, si, li, section_counter,
                   lesson_counter, section_path, fileWrites, reported, secDirs, targets,
                   last, diskVars, fnVars>>

\* What session.get(url, stream=True), raise_for_status and the streaming loop
\* can do: "" has no scheme (MissingSchema, before any request is sent); a
\* request can fail or answer a non-success status (before the file is
\* opened), break while streaming (after it is opened) or complete.
DownloadOutcomes(url) ==
    IF url = NoUrl THEN {"invalid_url"} ELSE {"http_error", "stream_error", "ok"}

\* variant: the handler misses the error raised for a URL without a scheme
CaughtNotInvalidUrl(o) == o \in {"http_error", "stream_error"}

\* download_file's except requests.exceptions.RequestException
Caught(o) == o \in {"invalid_url", "http_error", "stream_error"}

\* variant: no early return
NeverSkip(file_path) == FALSE

\* download_video's test, line 122
SkipDownload(file_path) == FileAlreadyDownloaded(file_path)

\* variant: lessons numbered within their section
LessonNumberPerSection(counter, pos) == pos

\* the lesson_num handed to download_video, line 153
LessonNumber(counter, pos) == counter

\* downloader.download_video (with download_file) and line 154
DownloadVideo ==
    /\ pc = "Resolved"
    /\ LET title == sections[si].videos[li].title
           num == LessonNumber(lesson_counter, li)
           file_path == GetFilePath(section_path, num, title)
           before == IF file_path \in DOMAIN fs THEN fs[file_path] ELSE Absent
           seen == [k |-> num, path |-> file_path, url |-> mp4_url, hit |-> page_hit,
                    existed |-> file_path \in DOMAIN fs, outcome |-> "skipped",
                    gets |-> 0, before |-> before]
       IN  /\ targets' = Append(targets, file_path)
           /\ IF SkipDownload(file_path)
              THEN /\ last' = seen
                   /\ lesson_counter' = lesson_counter + 1
                   /\ li' = li + 1
                   /\ pc' = "Downloading"
                   /\ UNCHANGED <<fs, net, fileWrites, abortCause>>
              ELSE \E o \in DownloadOutcomes(mp4_url) :
                      /\ last' = [seen EXCEPT !.outcome = o,
                                              !.gets = IF o = "invalid_url" THEN 0 ELSE 1]
                      /\ net' = IF o = "invalid_url" THEN net
                                ELSE [net EXCEPT !.mediaGets = @ + 1]
                      /\ IF o \in {"stream_error", "ok"}
                         THEN /\ fs' = [p \in DOMAIN fs \cup {file_path} |->
                                          IF p = file_path
                                          THEN [state |-> IF o = "ok" THEN "complete" ELSE "partial",
                                                by |-> "this"]
                                          ELSE fs[p]]
                              /\ fileWrites' = fileWrites + 1
                         ELSE UNCHANGED <<fs, fileWrites>>
                      /\ IF o = "ok" \/ Caught(o)
                         THEN /\ lesson_counter' = lesson_counter + 1
                              /\ li' = li + 1
                              /\ pc' = "Downloading"
                              /\ UNCHANGED abortCause
                         ELSE /\ Abort("download")
                              /\ UNCHANGED <<lesson_counter, li>>
    /\ mp4_url' = NoUrl
    /\ page_hit' = FALSE
    /\ UNCHANGED <<doc, session, sections, total_lessons, si, section_counter,
                   section_path, reported, secDirs, dirs, fnVars>>

\* download_videos returns; main logs the total, lines 50-52
Report ==
    /\ pc = "Downloading"
    /\ InnerLoopDone
    /\ si = Len(sections)
    /\ reported' = <<total_lessons>>
    /\ pc' = "Done"
    /\ UNCHANGED <<doc, session, sections, total_lessons, si, li, section_counter,
                   lesson_counter, section_path, mp4_url, page_hit, net, fileWrites,
                   abortCause, secDirs, targets, last, diskVars, fnVars>>

\* The program is started again on the same destination: what the ended run
\* wrote is now the work of an earlier run.
Restart ==
    /\ pc \in {"Done", "Aborted"}
    /\ fs' = [p \in DOMAIN fs |-> [fs[p] EXCEPT !.by = "earlier"]]
    /\ pc' = "Idle"
    /\ session' = "anonymous"
    /\ sections' = <<>>
    /\ total_lessons' = 0
    /\ si' = 0
    /\ li' = 0
    /\ section_counter' = 0
    /\ lesson_counter' = 0
    /\ section_path' = <<>>
    /\ mp4_url' = NoUrl
    /\ page_hit' = FALSE
    /\ net' = NoNet
    /\ fileWrites' = 0
    /\ abortCause' = "none"
    /\ reported' = NotReported
    /\ secDirs' = <<>>
    /\ targets' = <<>>
    /\ last' = NoLast
    /\ UNCHANGED <<doc, dirs, fnVars>>

Next ==
    \/ Login
    \/ GetSectionsAndLessonUrls
    \/ StartDownloadVideos
    \/ NextSection
    \/ GetMp4Url
    \/ DownloadVideo
    \/ Report
    \/ Restart

Spec == Init /\ [][Next]_vars

(***************************************************************************)
(* What the claims speak of                                                *)
(***************************************************************************)
InLoop == pc \in {"Downloading", "Resolved"}
ExtractionSucceeded == sections # <<>>

\* The lessons of a section map in document order, each with the position of
\* its section.
RECURSIVE Flat(_, _)
Flat(d, j) ==
    IF j > Len(d) THEN <<>>
    ELSE [i \in 1..Len(d[j].videos) |-> [sec |-> j, title |-> d[j].videos[i].title]]
         \o Flat(d, j + 1)

\* <dest>/<NN>_<SectionName> for the j-th section of the map
DirOfSection(j) == destination \o <<"/">> \o Fmt(j, 2) \o <<"_">> \o sections[j].name

\* <dest>/<NN>_<SectionName>/<MMM>_<LessonTitle>.mp4 for the k-th lesson of the map
FileOfLesson(k) ==
    LET l == Flat(sections, 1)[k]
    IN  DirOfSection(l.sec) \o <<"/">> \o Fmt(k, 3) \o <<"_">> \o l.title \o <<".mp4">>

NumLessons == Len(Flat(sections, 1))

\* Every lesson's destination file was on disk before this run began.
AllPresentBefore ==
    /\ ExtractionSucceeded
    /\ \A k \in 1..NumLessons :
          FileOfLesson(k) \in DOMAIN fs /\ fs[FileOfLesson(k)].by = "earlier"

Called == last.outcome # "none"

(***************************************************************************)
(* C1: once the run is in the download loop, a failure on one lesson,      *)
(* while resolving its media URL or while transferring the file, never     *)
(* moves the run to Aborted.                                               *)
(***************************************************************************)
C1_LessonFailureNeverAborts == ExtractionSucceeded => pc # "Aborted"

(***************************************************************************)
(* C2: skip-if-present.  When every lesson's destination file was there    *)
(* before the run, the run writes no file and issues no media GET, yet     *)
(* logs in and extracts; and whenever download_video finds its file        *)
(* present it issues no request and leaves the file as it was.             *)
(***************************************************************************)
C2_SkipIfPresent ==
    /\ AllPresentBefore =>
          /\ fileWrites = 0
          /\ net.mediaGets = 0
          /\ net.logins = 1
          /\ net.coursePages = 1
    /\ (Called /\ last.existed) =>
          /\ last.outcome = "skipped"
          /\ last.gets = 0
          /\ fs[last.path] = last.before

C2_Witness ==
    /\ pc = "Done"
    /\ AllPresentBefore
    /\ NumLessons >= 2
    /\ Len(targets) = NumLessons

(***************************************************************************)
(* C3: numbering follows document order.  The j-th section of the map gets *)
(* directory prefix j, the k-th lesson across all sections gets file       *)
(* prefix k; each counter moves by one per section/lesson processed,       *)
(* whatever happened to the lesson.                                        *)
(***************************************************************************)
TwoByTwo ==
    /\ Len(sections) = 2
    /\ Len(sections[1].videos) = 2
    /\ Len(sections[2].videos) = 2

C3_NumberingFollowsDocumentOrder ==
    /\ \A j \in 1..Len(secDirs) : secDirs[j] = DirOfSection(j)
    /\ \A k \in 1..Len(targets) : targets[k] = FileOfLesson(k)
    /\ InLoop =>
          /\ section_counter = Len(secDirs) + 1
          /\ lesson_counter = Len(targets) + 1
          /\ Len(secDirs) = si
    /\ Called => last.k = Len(targets) /\ lesson_counter = last.k + 1
    /\ pc = "Done" => Len(secDirs) = Len(sections) /\ Len(targets) = NumLessons
    /\ (pc = "Done" /\ TwoByTwo) =>
          /\ SubSeq(targets[1], 3, 5) = <<"0", "1", "_">>
          /\ SubSeq(targets[2], 3, 5) = <<"0", "1", "_">>
          /\ SubSeq(targets[3], 3, 5) = <<"0", "2", "_">>
          /\ SubSeq(targets[4], 3, 5) = <<"0", "2", "_">>
          /\ \A k \in 1..4 :
                SubSeq(targets[k], Len(secDirs[Flat(sections, 1)[k].sec]) + 2,
                       Len(secDirs[Flat(sections, 1)[k].sec]) + 5)
                   = <<"0", "0", Digit(k), "_">>

C3_Witness ==
    /\ pc = "Done"
    /\ TwoByTwo
    /\ \E k \in 1..4 : targets[k] \in DOMAIN fs /\ fs[targets[k]].by = "earlier"
    /\ \E k \in 1..4 : targets[k] \notin DOMAIN fs
    /\ \E k \in 1..4 : targets[k] \in DOMAIN fs /\ fs[targets[k]].by = "this"

(***************************************************************************)
(* C4: a course document with S >= 2 section containers yields exactly     *)
(* S-1 sections, in document order, each holding the lesson links of its   *)
(* own container, whatever the section titles are.                         *)
(***************************************************************************)
C4_OneSectionPerContainer ==
    (ExtractionSucceeded /\ Len(doc) >= 2) =>
        /\ Len(sections) = Len(doc) - 1
        /\ \A j \in 1..Len(sections) :
              /\ sections[j].name = ExtractSectionName(doc[j + 1])
              /\ sections[j].videos = LessonsOf(doc[j + 1])

(***************************************************************************)
(* C5: extraction fails when zero sections or zero lessons are found, so   *)
(* every section map that reaches the download loop has at least one       *)
(* section and at least one lesson.                                        *)
(***************************************************************************)
C5_NoContentIsFatal ==
    pc \in {"Extracted", "Downloading", "Resolved", "Done"} =>
        Len(sections) >= 1 /\ NumLessons >= 1

(***************************************************************************)
(* C6: login happens once and before any page fetch, extraction once and   *)
(* before any lesson resolution or download; a failed login or a failed    *)
(* course-page fetch/extraction aborts the run, after which no lesson page *)
(* is fetched, no media requested, no directory or file made and no total  *)
(* reported.                                                               *)
(***************************************************************************)
FatalCauses == {"login", "course_fetch", "no_content"}

NothingDownloaded ==
    /\ net.lessonPages = 0
    /\ net.mediaGets = 0
    /\ secDirs = <<>>
    /\ targets = <<>>
    /\ fileWrites = 0
    /\ \A p \in DOMAIN fs : fs[p].by = "earlier"

C6_StagesAndFatalAborts ==
    /\ net.logins <= 1 /\ net.coursePages <= 1
    /\ pc # "Idle" => net.logins = 1
    /\ pc \notin {"Idle", "Authenticated"} => (net.coursePages = 1 \/ abortCause = "login")
    /\ net.coursePages > 0 => net.logins = 1 /\ session = "authenticated"
    /\ ~NothingDownloaded => net.coursePages = 1 /\ ExtractionSucceeded
    /\ (net.logins = 1 /\ session = "anonymous") => pc = "Aborted" /\ abortCause = "login"
    /\ (net.coursePages = 1 /\ ~ExtractionSucceeded) =>
          pc = "Aborted" /\ abortCause \in {"course_fetch", "no_content"}
    /\ abortCause \in FatalCauses =>
          /\ pc = "Aborted"
          /\ NothingDownloaded
          /\ reported = NotReported
    /\ reported # NotReported => pc = "Done"

C6_Witness ==
    /\ pc = "Aborted"
    /\ abortCause \in FatalCauses
    /\ fs # <<>>

C10_State ==
    /\ (Called /\ last.outcome = "stream_error") =>
          /\ fs[last.path] = [state |-> "partial", by |-> "this"]
          /\ lesson_counter = last.k + 1
          /\ pc = "Aborted" => abortCause = "lesson_fetch" /\ net.lessonPages = last.k + 1
    /\ (Called /\ last.before.state = "partial") =>
          /\ last.outcome = "skipped"
          /\ last.gets = 0
          /\ fs[last.path] = last.before
    /\ (Called /\ last.outcome = "http_error") =>
          /\ last.path \notin DOMAIN fs
          /\ lesson_counter = last.k + 1
    /\ (Called /\ ~last.existed) =>
          /\ last.outcome # "skipped"
          /\ last.url # NoUrl => last.gets = 1

\* A file on disk stays as it is; a restart only makes it an earlier run's.
FilesAreWriteOnce ==
    \A p \in DOMAIN fs :
        /\ p \in DOMAIN fs'
        /\ fs'[p] = fs[p] \/ fs'[p] = [fs[p] EXCEPT !.by = "earlier"]

RawChars == {"a", " ", "/", "_", "\t"}
RawTexts == SeqsUpTo(RawChars, MaxRawLen)
RawNames == [kind : {"h3", "a"}, text : RawTexts] \cup {[kind |-> "h3", text |-> NoH3]}

SanInit ==
    /\ doc = <<>>
    /\ FreshRun
    /\ fs = <<>>
    /\ dirs = {}
    /\ raw \in RawNames
    /\ out = <<>>
    /\ step = "in"

\* extract_section_name on a container whose heading text is raw.text
SectionNameStep ==
    /\ step = "in"
    /\ raw.kind = "h3"
    /\ out' = <<ExtractSectionName([h3 |-> raw.text, links |-> <<>>])>>
    /\ step' = "named"
    /\ UNCHANGED <<doc, runVars, diskVars, raw>>

\* extract_lesson_details on a link whose text is raw.text
LessonTitleStep ==
    /\ step = "in"
    /\ raw.kind = "a"
    /\ out' = <<ExtractLessonDetails([text |-> raw.text, href |-> Lesson1.href]).title>>
    /\ step' = "named"
    /\ UNCHANGED <<doc, runVars, diskVars, raw>>

\* the returned name is sanitized again
SanitizeAgainStep ==
    /\ step = "named"
    /\ out' = Append(out, Sanitize(out[1]))
    /\ step' = "renamed"
    /\ UNCHANGED <<doc, runVars, diskVars, raw>>

SanNext == SectionNameStep \/ LessonTitleStep \/ SanitizeAgainStep

SanitizeSpec == SanInit /\ [][SanNext]_vars

Chars(s) == {s[i] : i \in 1..Len(s)}

(***************************************************************************)
(* C9: sanitization is idempotent, and no name returned by                 *)
(* extract_section_name or extract_lesson_details holds '/' or a space.    *)
(***************************************************************************)
C9_SanitizeIdempotent ==
    /\ step \in {"named", "renamed"} => Chars(out[1]) \cap {"/", " "} = {}
    /\ step = "renamed" => out[2] = out[1]

C9_Witness ==
    /\ step = "renamed"
    /\ raw.text # NoH3
    /\ {"/", " ", "a"} \subseteq Chars(raw.text)
    /\ Head(raw.text) = " "
    /\ Len(out[1]) = 2

(***************************************************************************)
(* Path planning on its own: section and lesson indices below and above    *)
(* the padding widths, sanitized names made of digits and underscores.     *)
(***************************************************************************)
SectionNums == {1, 99, 100}
LessonNums == {1, 100, 999, 1000}
Names == {Sanitize(s) : s \in SeqsUpTo({"0", "_", "/"}, MaxNameLen)}
PlanInputs == [section_num : SectionNums, section_name : Names,
               lesson_num : LessonNums, filename : Names]

\* what download_videos computes for one lesson, lines 146 and 153/120
PlanOf(t) ==
    GetFilePath(GetSectionPath(destination, t.section_num, t.section_name),
                t.lesson_num, t.filename)

PlanTable == [t \in PlanInputs |-> PlanOf(t)]

PathInit ==
    /\ doc = <<>>
    /\ FreshRun
    /\ fs = <<>>
    /\ dirs = {}
    /\ raw \in PlanInputs
    /\ out = <<>>
    /\ step = "in"

\* get_section_path, with its makedirs(exist_ok=True)
PlanSectionStep ==
    /\ step \in {"in", "file"}
    /\ LET p == GetSectionPath(destination, raw.section_num, raw.section_name)
       IN  out' = Append(out, p) /\ dirs' = dirs \cup {p}
    /\ step' = IF step = "in" THEN "section" ELSE "section_again"
    /\ UNCHANGED <<doc, runVars, fs, raw>>

\* get_file_path
PlanFileStep ==
    /\ step \in {"section", "section_again"}
    /\ out' = Append(out, GetFilePath(out[Len(out)], raw.lesson_num, raw.filename))
    /\ step' = IF step = "section" THEN "file" ELSE "file_again"
    /\ UNCHANGED <<doc, runVars, diskVars, raw>>

PathNext == PlanSectionStep \/ PlanFileStep

PathSpec == PathInit /\ [][PathNext]_vars

(***************************************************************************)
(* C8: distinct (section index, lesson index) pairs produce distinct       *)
(* paths, for any sanitized names and also past the padding widths, and    *)
(* planning the same inputs again yields the same paths.                   *)
(***************************************************************************)
C8_PathsInjective ==
    /\ step = "file" =>
          \A t \in PlanInputs :
              <<t.section_num, t.lesson_num>> # <<raw.section_num, raw.lesson_num>>
                  => PlanTable[t] # out[2]
    /\ step = "file_again" => out[3] = out[1] /\ out[4] = out[2] /\ Cardinality(dirs) = 1

C8_Witness ==
    /\ step = "file_again"
    /\ raw.section_num = 100
    /\ raw.lesson_num = 1000
    /\ raw.section_name = <<"0", "_">>
    /\ raw.filename = <<"0">>
    /\ Len(out[4]) = 16

====
